---- MODULE Spec2Model ----
(***************************************************************************)
(* Room booking engine of the Slack room-booking bot: RoomManager          *)
(* (src/bot/room_manager.py) and the command handlers that call it         *)
(* (src/bot/message_handler.py).                                           *)
(*                                                                         *)
(* A datetime is an integer number of minutes since the first modelled     *)
(* day at 00:00.  The stored form of a datetime (datetime.isoformat) is    *)
(* the pair <<date, minute of day>>, compared as the code compares the     *)
(* strings: field by field.                                                *)
(***************************************************************************)
EXTENDS Integers, Sequences, FiniteSets, TLC

\* ------------------------------------------------------------------ bounds
\* Cap on the number of bookings stored in the whole catalog.
MaxBookings == 2

\* ------------------------------------------------------------ input domains
\* The keys of RoomManager.rooms (two of the five default rooms).
RoomIds == {"NEST", "RAVEN"}
\* Room names a caller may pass: the keys, and a lower-case spelling, which
\* only book_room upper-cases (for every other method it is an unknown room).
RoomNames == RoomIds \cup {"nest"}
Users == {"U1", "U2"}
EventNames == {"sync"}
MeetingTypes == {"internal"}
ContactNames == {"ann"}
\* Start times (00:00 and 00:01 of the first day) and durations in minutes:
\* enough for overlapping, nested, back-to-back and empty intervals.
Starts == {0, 1}
Durations == {0, 1, 2}
\* The duration texts the booking command's pattern can capture, as the
\* form of the text and its numbers: "<m>m", "<h>h", "<h>h <m>m", and
\* "<m>m <h>h", which no branch of _parse_duration accepts.
DurationTexts ==
    {[form |-> "m", hours |-> 0, minutes |-> 1],
     [form |-> "h", hours |-> 0, minutes |-> 0],
     [form |-> "hm", hours |-> 0, minutes |-> 2],
     [form |-> "mh", hours |-> 1, minutes |-> 1]}

MinutesPerDay == 24 * 60

\* str.upper() on the room names of the model.
upper(name) == IF name = "nest" THEN "NEST" ELSE name

\* datetime.isoformat(): the date part and the time-of-day part.
isoformat(t) == <<t \div MinutesPerDay, t % MinutesPerDay>>
\* datetime.fromisoformat()
fromisoformat(s) == s[1] * MinutesPerDay + s[2]

VARIABLES
    rooms,    \* RoomManager.rooms: room id -> list of booking records
    disk,     \* the contents of data/rooms.json
    last,     \* the last operation called, its arguments and its result
    pending   \* per handler thread: the request whose availability check passed

vars == <<rooms, disk, last, pending>>

\* Two booking commands in flight: thread t handles a command of user UserOf[t].
Threads == {"t1", "t2"}
UserOf == [t \in Threads |-> IF t = "t1" THEN "U1" ELSE "U2"]
NoRequest == [room |-> "none", start |-> 0, dur |-> 0]
NoOp == [op |-> "none", room |-> "none", start |-> 0, dur |-> 0,
         user |-> "none", result |-> "none"]

Op(o, r, s, d, u, res) ==
    [op |-> o, room |-> r, start |-> s, dur |-> d, user |-> u, result |-> res]

\* ---------------------------------------------------------------- helpers
RECURSIVE SumLen(_, _)
SumLen(rs, ids) ==
    IF ids = {} THEN 0
    ELSE LET r == CHOOSE x \in ids : TRUE
         IN Len(rs[r]) + SumLen(rs, ids \ {r})

TotalBookings(rs) == SumLen(rs, DOMAIN rs)

\* The list cut off at index i.
RemoveFrom(s, i) == SubSeq(s, 1, i - 1)

\* list.pop(i), with indices from 1.
RemoveAt(s, i) == SubSeq(s, 1, i - 1) \o SubSeq(s, i + 1, Len(s))

\* The dict book_room builds (lines 139-147).
new_booking(start_time, duration_minutes, event_name, meeting_type, contact_name, user_id) ==
    [start_time |-> isoformat(start_time),
     end_time |-> isoformat(start_time + duration_minutes),
     duration_minutes |-> duration_minutes,
     event_name |-> event_name,
     meeting_type |-> meeting_type,
     contact_name |-> contact_name,
     user_id |-> user_id]

\* sorted(..., key=start): a stable insertion of b into the sorted list s.
RECURSIVE InsertByStart(_, _)
InsertByStart(b, s) ==
    IF s = <<>> THEN <<b>>
    ELSE IF fromisoformat(b.start_time) < fromisoformat(Head(s).start_time)
         THEN <<b>> \o s
         ELSE <<Head(s)>> \o InsertByStart(b, Tail(s))

RECURSIVE SortByStart(_)
SortByStart(s) ==
    IF s = <<>> THEN <<>>
    ELSE InsertByStart(s[Len(s)], SortByStart(SubSeq(s, 1, Len(s) - 1)))

get_room_schedule(rs, room_id) ==
    IF room_id \notin DOMAIN rs THEN <<>> ELSE SortByStart(rs[room_id])

ConflictsClosed(start_time, end_time, booking) ==
    /\ start_time <= fromisoformat(booking.end_time)
    /\ end_time >= fromisoformat(booking.start_time)

\* The overlap test of check_room_availability (line 110).
Conflicts(start_time, end_time, booking) ==
    /\ start_time < fromisoformat(booking.end_time)
    /\ end_time > fromisoformat(booking.start_time)

ScanScheduleFirstOnly(bookings, start_time, end_time) ==
    IF bookings = <<>> THEN TRUE
    ELSE ~Conflicts(start_time, end_time, Head(bookings))

\* The loop of check_room_availability over the schedule (lines 104-113).
RECURSIVE ScanSchedule(_, _, _)
ScanSchedule(bookings, start_time, end_time) ==
    IF bookings = <<>> THEN TRUE
    ELSE IF Conflicts(start_time, end_time, Head(bookings)) THEN FALSE
    ELSE ScanSchedule(Tail(bookings), start_time, end_time)

check_room_availability(rs, room_id, start_time, duration_minutes) ==
    IF room_id \notin DOMAIN rs THEN FALSE
    ELSE ScanSchedule(get_room_schedule(rs, room_id), start_time,
                      start_time + duration_minutes)

\* _parse_duration: the minutes of a duration text, or a raised ValueError.
parse_duration(text) ==
    CASE text.form = "h" -> [raised |-> FALSE, minutes |-> text.hours * 60]
      [] text.form = "m" -> [raised |-> FALSE, minutes |-> text.minutes]
      [] text.form = "hm" ->
            [raised |-> FALSE, minutes |-> text.hours * 60 + text.minutes]
      [] OTHER -> [raised |-> TRUE, minutes |-> 0]

save_rooms_booked_only(rs) ==
    [r \in {x \in DOMAIN rs : rs[x] # <<>>} |-> rs[r]]

\* _save_rooms: the whole mapping is rewritten.
save_rooms(rs) == rs

StartMatchesInside(booking, start_time) ==
    /\ fromisoformat(booking.start_time) <= start_time
    /\ start_time < fromisoformat(booking.end_time)

\* cancel_booking's match of a booking (line 185): the stored start string
\* equals the requested start's string.
StartMatches(booking, start_time) ==
    booking.start_time = isoformat(start_time)

\* The index of the first booking of the list that matches, 0 if none.
RECURSIVE FirstMatch(_, _, _)
FirstMatch(bookings, start_time, i) ==
    IF i > Len(bookings) THEN 0
    ELSE IF StartMatches(bookings[i], start_time) THEN i
    ELSE FirstMatch(bookings, start_time, i + 1)

AuthorizedAnyone(booking, user_id) == TRUE

\* cancel_booking's owner check (line 187).
Authorized(booking, user_id) == booking.user_id = user_id

\* ----------------------------------------------------------------- state
\* RoomManager() on a machine without data/rooms.json: the default rooms,
\* no bookings, written to disk at once.
Init ==
    /\ rooms = [r \in RoomIds |-> <<>>]
    /\ disk = [r \in RoomIds |-> <<>>]
    /\ last = NoOp
    /\ pending = [t \in Threads |-> NoRequest]

\* RoomManager.check_room_availability called by a client of the engine.
CheckAvailability(room, s, d) ==
    /\ last' = Op("check", room, s, d, "none",
                  IF check_room_availability(rooms, room, s, d)
                  THEN "True" ELSE "False")
    /\ UNCHANGED <<rooms, disk, pending>>

\* RoomManager.book_room.
BookRoom(room_name, s, d, ev, mt, cn, u) ==
    LET room == upper(room_name) IN
    IF room \notin DOMAIN rooms
    THEN /\ last' = Op("book", room_name, s, d, u, "None")
         /\ UNCHANGED <<rooms, disk, pending>>
    ELSE /\ TotalBookings(rooms) < MaxBookings
         /\ rooms' = [rooms EXCEPT ![room] =
                         Append(@, new_booking(s, d, ev, mt, cn, u))]
         /\ disk' = save_rooms(rooms')
         /\ last' = Op("book", room_name, s, d, u, "booked")
         /\ UNCHANGED pending

\* RoomManager.cancel_booking.
CancelBooking(room_id, t, u) ==
    IF room_id \notin DOMAIN rooms
    THEN /\ last' = Op("cancel", room_id, t, 0, u, "room_not_found")
         /\ UNCHANGED <<rooms, disk, pending>>
    ELSE LET i == FirstMatch(rooms[room_id], t, 1) IN
         IF i = 0
         THEN /\ last' = Op("cancel", room_id, t, 0, u, "not_found")
              /\ UNCHANGED <<rooms, disk, pending>>
         ELSE IF ~Authorized(rooms[room_id][i], u)
         THEN /\ last' = Op("cancel", room_id, t, 0, u, "unauthorized")
              /\ UNCHANGED <<rooms, disk, pending>>
         ELSE /\ rooms' = [rooms EXCEPT ![room_id] = RemoveAt(@, i)]
              /\ disk' = save_rooms(rooms')
              /\ last' = Op("cancel", room_id, t, 0, u, "cancelled")
              /\ UNCHANGED pending

\* MessageHandler._handle_booking_request with every field matched, run
\* with no other command in between: parse the duration, check, book.
HandleBookingRequest(room_id, s, text, ev, mt, cn, u) ==
    LET parsed == parse_duration(text)
        d == parsed.minutes
    IN
    IF parsed.raised
    THEN /\ last' = Op("handle_book", room_id, s, 0, u, "error")
         /\ UNCHANGED <<rooms, disk, pending>>
    ELSE IF ~check_room_availability(rooms, room_id, s, d)
    THEN /\ last' = Op("handle_book", room_id, s, d, u, "not_available")
         /\ UNCHANGED <<rooms, disk, pending>>
    ELSE /\ TotalBookings(rooms) < MaxBookings
         /\ rooms' = [rooms EXCEPT ![room_id] =
                         Append(@, new_booking(s, d, ev, mt, cn, u))]
         /\ disk' = save_rooms(rooms')
         /\ last' = Op("handle_book", room_id, s, d, u, "booked")
         /\ UNCHANGED pending

\* RoomManager.load_rooms: when data/rooms.json is found under the working
\* directory, every room of the file is replaced by Room.from_dict(...),
\* which copies room_id, name and capacity and starts with no bookings;
\* when it is not found the exception is caught and nothing changes.
LoadRooms(found) ==
    /\ rooms' = IF found
                THEN [r \in DOMAIN rooms |->
                         IF r \in DOMAIN disk THEN <<>> ELSE rooms[r]]
                ELSE rooms
    /\ last' = Op("load", "none", 0, 0, "none",
                  IF found THEN "loaded" ELSE "error")
    /\ UNCHANGED <<disk, pending>>

\* The first step of _handle_booking_request on thread t: the duration is
\* parsed and availability is checked (lines 109-119).
HandlerCheck(t, room_id, s, text) ==
    /\ pending[t] = NoRequest
    /\ LET parsed == parse_duration(text)
           d == parsed.minutes
       IN
       IF parsed.raised
       THEN /\ last' = Op("handle_book", room_id, s, 0, UserOf[t], "error")
            /\ UNCHANGED <<rooms, disk, pending>>
       ELSE IF ~check_room_availability(rooms, room_id, s, d)
       THEN /\ last' = Op("handle_book", room_id, s, d, UserOf[t],
                          "not_available")
            /\ UNCHANGED <<rooms, disk, pending>>
       ELSE /\ pending' = [pending EXCEPT ![t] =
                              [room |-> room_id, start |-> s, dur |-> d]]
            /\ UNCHANGED <<rooms, disk, last>>

\* The second step on thread t: book_room with the checked request
\* (lines 122-135).
HandlerBook(t, ev, mt, cn) ==
    /\ pending[t] # NoRequest
    /\ TotalBookings(rooms) < MaxBookings
    /\ LET q == pending[t] IN
       /\ rooms' = [rooms EXCEPT ![q.room] =
                       Append(@, new_booking(q.start, q.dur, ev, mt, cn,
                                             UserOf[t]))]
       /\ disk' = save_rooms(rooms')
       /\ last' = Op("handle_book", q.room, q.start, q.dur, UserOf[t],
                     "booked")
       /\ pending' = [pending EXCEPT ![t] = NoRequest]

\* ------------------------------------------------------- specifications
DoCheck ==
    \E room \in RoomNames, s \in Starts, d \in Durations :
        CheckAvailability(room, s, d)

DoBook ==
    \E room \in RoomNames \cup {"ATTIC"}, s \in Starts, d \in Durations,
       ev \in EventNames, mt \in MeetingTypes, cn \in ContactNames,
       u \in Users :
        BookRoom(room, s, d, ev, mt, cn, u)

DoCancel ==
    \E room \in RoomNames, s \in Starts, u \in Users :
        CancelBooking(room, s, u)

DoHandleBooking ==
    \E room \in RoomIds, s \in Starts, text \in DurationTexts,
       ev \in EventNames, mt \in MeetingTypes, cn \in ContactNames,
       u \in Users :
        HandleBookingRequest(room, s, text, ev, mt, cn, u)

DoLoad == \E found \in BOOLEAN : LoadRooms(found)

\* Every operation of the engine, one call at a time.
Next == DoCheck \/ DoBook \/ DoCancel \/ DoHandleBooking \/ DoLoad

Spec == Init /\ [][Next]_vars

\* The commands of the chat interface, one handled at a time, and Cancel.
NextCommands == DoHandleBooking \/ DoCancel

SpecCommands == Init /\ [][NextCommands]_vars

\* book_room by one user: who owns a booking plays no part in availability.
DoBookOneUser ==
    \E room \in RoomIds, s \in Starts, d \in Durations, ev \in EventNames,
       mt \in MeetingTypes, cn \in ContactNames :
        BookRoom(room, s, d, ev, mt, cn, "U1")

\* The availability check over every catalog book_room can build.
NextAvail == DoBookOneUser \/ DoCheck

SpecAvail == Init /\ [][NextAvail]_vars

\* book_room with a duration of one or two minutes, by either user.
DoBookNonEmpty ==
    \E room \in RoomIds, s \in Starts, d \in Durations \ {0},
       ev \in EventNames, mt \in MeetingTypes, cn \in ContactNames,
       u \in Users :
        BookRoom(room, s, d, ev, mt, cn, u)

\* Cancel over every catalog book_room can build.
NextCancel == DoBookNonEmpty \/ DoCancel

SpecCancel == Init /\ [][NextCancel]_vars

\* Both commands name the same room.
DoHandlerCheck ==
    \E t \in Threads, s \in Starts, text \in DurationTexts :
        HandlerCheck(t, "NEST", s, text)

DoHandlerBook ==
    \E t \in Threads, ev \in EventNames, mt \in MeetingTypes,
       cn \in ContactNames :
        HandlerBook(t, ev, mt, cn)

\* Two booking commands handled on two threads, their steps interleaved.
NextConc == DoHandlerCheck \/ DoHandlerBook

SpecConc == Init /\ [][NextConc]_vars

\* ------------------------------------------------------- user's bookings
\* The rooms in the order self.rooms.values() yields them (insertion order
\* of the default rooms).
RoomOrder == <<"NEST", "RAVEN">>
\* The display names of the rooms.
RoomNameOf == [r \in RoomIds |-> IF r = "NEST" THEN "The Nest" ELSE "Raven"]
\* Start times of the listed bookings: two minutes of the first day and
\* midnight of the second; values of the clock when the list is asked for.
ListStarts == {0, 1, MinutesPerDay}
ClockTimes == {0, 1}

\* Comparison of two isoformat strings of the same layout: the date part
\* first, then the time part.
IsoLess(a, b) == a[1] < b[1] \/ (a[1] = b[1] /\ a[2] < b[2])

IsFutureOrNow(booking_time, current_time) == booking_time >= current_time

\* get_user_bookings' test of a booking's start against the clock (line 333).
IsFuture(booking_time, current_time) == booking_time > current_time

\* The entries get_user_bookings collects from the bookings of one room.
UserBookingsOfRoom(rs, r, user_id, current_time) ==
    LET Keep(b) == /\ b.user_id = user_id
                   /\ IsFuture(fromisoformat(b.start_time), current_time)
        kept == SelectSeq(rs[r], Keep)
    IN [i \in 1..Len(kept) |->
           kept[i] @@ [room_id |-> r, room_name |-> RoomNameOf[r]]]

RECURSIVE CollectUserBookings(_, _, _, _)
CollectUserBookings(rs, order, user_id, current_time) ==
    IF order = <<>> THEN <<>>
    ELSE UserBookingsOfRoom(rs, Head(order), user_id, current_time)
           \o CollectUserBookings(rs, Tail(order), user_id, current_time)

\* list.sort(key=lambda x: x['start_time']): a stable sort on the start
\* strings.
RECURSIVE InsertByStartString(_, _)
InsertByStartString(b, s) ==
    IF s = <<>> THEN <<b>>
    ELSE IF IsoLess(b.start_time, Head(s).start_time)
         THEN <<b>> \o s
         ELSE <<Head(s)>> \o InsertByStartString(b, Tail(s))

RECURSIVE SortByStartString(_)
SortByStartString(s) ==
    IF s = <<>> THEN <<>>
    ELSE InsertByStartString(s[Len(s)],
                             SortByStartString(SubSeq(s, 1, Len(s) - 1)))

get_user_bookings(rs, user_id, current_time) ==
    SortByStartString(CollectUserBookings(rs, RoomOrder, user_id, current_time))

\* RoomManager.get_user_bookings; current_time is what datetime.now()
\* returns during the call.
GetUserBookings(user_id, current_time) ==
    /\ last' = Op("list", "none", 0, 0, user_id, "listed")
                 @@ [now |-> current_time,
                     bookings |-> get_user_bookings(rooms, user_id,
                                                    current_time)]
    /\ UNCHANGED <<rooms, disk, pending>>

DoBookForList ==
    \E room \in RoomIds, s \in ListStarts, ev \in EventNames,
       mt \in MeetingTypes, cn \in ContactNames, u \in Users :
        BookRoom(room, s, 1, ev, mt, cn, u)

DoList ==
    \E u \in Users, current_time \in ClockTimes :
        GetUserBookings(u, current_time)

\* The list of a user's bookings over every catalog book_room can build.
NextList == DoBookForList \/ DoList

SpecList == Init /\ [][NextList]_vars

\* ------------------------------------------------------- available slots
\* The business hours get_available_slots sets.
start_hour == 9
end_hour == 18

\* datetime.date(): the day of a datetime.
DateOf(t) == t \div MinutesPerDay
\* datetime.combine(day, time(hour, 0))
combine(day, hour) == day * MinutesPerDay + hour * 60

\* The bookings the slot queries run over, as <<start, duration>>, around
\* the second modelled day: 08:00-09:00, 09:00-10:00, 10:00-11:00,
\* 17:00-19:00 and 19:00-20:00 of that day, and one from 10:00 of the day
\* before to 10:00 of the day after.
SlotBookings ==
    {<<combine(1, 8), 60>>, <<combine(1, 9), 60>>, <<combine(1, 10), 60>>,
     <<combine(1, 17), 120>>, <<combine(1, 19), 60>>,
     <<combine(0, 10), 2 * MinutesPerDay>>}
\* The date argument of a slot query: 14:00 of the second day.
SlotDates == {combine(1, 14)}

\* get_available_slots' choice of the bookings of the day (line 404).
OnDay(booking_start, booking_end, day) ==
    DateOf(booking_start) = day \/ DateOf(booking_end) = day

\* The (start, end) pairs of the bookings chosen for the day, in stored
\* order.
BookingsOnDay(bookings, day) ==
    LET Chosen(b) == OnDay(fromisoformat(b.start_time),
                           fromisoformat(b.end_time), day)
        chosen == SelectSeq(bookings, Chosen)
    IN [i \in 1..Len(chosen) |->
           <<fromisoformat(chosen[i].start_time),
             fromisoformat(chosen[i].end_time)>>]

\* bookings.sort(key=lambda x: x[0]): a stable sort on the start.
RECURSIVE InsertPair(_, _)
InsertPair(p, s) ==
    IF s = <<>> THEN <<p>>
    ELSE IF p[1] < Head(s)[1] THEN <<p>> \o s
    ELSE <<Head(s)>> \o InsertPair(p, Tail(s))

RECURSIVE SortPairs(_)
SortPairs(s) ==
    IF s = <<>> THEN <<>>
    ELSE InsertPair(s[Len(s)], SortPairs(SubSeq(s, 1, Len(s) - 1)))

Max(a, b) == IF a >= b THEN a ELSE b

\* The walk over the sorted bookings (lines 411-422).
RECURSIVE WalkSlots(_, _, _, _)
WalkSlots(bookings, current_time, day_end, available_slots) ==
    IF bookings = <<>>
    THEN IF current_time < day_end
         THEN Append(available_slots, <<current_time, day_end>>)
         ELSE available_slots
    ELSE LET booking_start == Head(bookings)[1]
             booking_end == Head(bookings)[2]
         IN WalkSlots(Tail(bookings), Max(current_time, booking_end), day_end,
                      IF current_time < booking_start
                      THEN Append(available_slots,
                                  <<current_time, booking_start>>)
                      ELSE available_slots)

get_available_slots(rs, room_id, date) ==
    IF room_id \notin DOMAIN rs THEN <<>>
    ELSE WalkSlots(SortPairs(BookingsOnDay(rs[room_id], DateOf(date))),
                   combine(DateOf(date), start_hour),
                   combine(DateOf(date), end_hour), <<>>)

\* get_available_slots sorting the room's own list instead of a copy.
GetAvailableSlotsSortingStored(room_id, date) ==
    /\ last' = Op("slots", room_id, date, 0, "none", "listed")
                 @@ [slots |-> get_available_slots(rooms, room_id, date)]
    /\ rooms' = IF room_id \in DOMAIN rooms
                THEN [rooms EXCEPT ![room_id] = SortByStart(@)]
                ELSE rooms
    /\ UNCHANGED <<disk, pending>>

\* RoomManager.get_available_slots.
GetAvailableSlots(room_id, date) ==
    /\ last' = Op("slots", room_id, date, 0, "none", "listed")
                 @@ [slots |-> get_available_slots(rooms, room_id, date)]
    /\ UNCHANGED <<rooms, disk, pending>>

DoBookForSlots ==
    \E p \in SlotBookings, ev \in EventNames, mt \in MeetingTypes,
       cn \in ContactNames :
        BookRoom("NEST", p[1], p[2], ev, mt, cn, "U1")

DoSlots ==
    \E room \in RoomNames, date \in SlotDates : GetAvailableSlots(room, date)

\* The free slots of a day over every catalog book_room can build.
NextSlots == DoBookForSlots \/ DoSlots

SpecSlots == Init /\ [][NextSlots]_vars

\* ------------------------------------------------------ recurring bookings
\* The calendar: the first modelled day (day 0) is the first day of the
\* month Epoch = <<year, month>>.
Epoch == <<2024, 11>>

IsLeap(y) == y % 4 = 0 /\ (y % 100 # 0 \/ y % 400 = 0)

DaysInMonth(y, m) ==
    IF m \in {4, 6, 9, 11} THEN 30
    ELSE IF m = 2 THEN (IF IsLeap(y) THEN 29 ELSE 28)
    ELSE 31

\* datetime.year, .month, .day of day number n counted from the first day
\* of month m of year y.
RECURSIVE YMDFrom(_, _, _)
YMDFrom(y, m, n) ==
    IF n < DaysInMonth(y, m) THEN <<y, m, n + 1>>
    ELSE YMDFrom(IF m = 12 THEN y + 1 ELSE y, IF m = 12 THEN 1 ELSE m + 1,
                 n - DaysInMonth(y, m))

YMD(day) == YMDFrom(Epoch[1], Epoch[2], day)

\* The number of days from the first day of month m0 of year y0 to the
\* first day of month m of year y.
RECURSIVE DaysBefore(_, _, _, _)
DaysBefore(y0, m0, y, m) ==
    IF y0 = y /\ m0 = m THEN 0
    ELSE DaysInMonth(y0, m0)
           + DaysBefore(IF m0 = 12 THEN y0 + 1 ELSE y0,
                        IF m0 = 12 THEN 1 ELSE m0 + 1, y, m)

\* The day number of the date y-m-d.
Ordinal(y, m, d) == DaysBefore(Epoch[1], Epoch[2], y, m) + d - 1

replace_month_clamped(t, y, m) ==
    LET d == YMD(DateOf(t))[3]
        c == IF d > DaysInMonth(y, m) THEN DaysInMonth(y, m) ELSE d
    IN [raised |-> FALSE,
        date |-> Ordinal(y, m, c) * MinutesPerDay + (t % MinutesPerDay)]

\* datetime.replace(year=y, month=m): the same day of the month and time
\* of day in month m of year y; ValueError when that month has no such day.
replace_month(t, y, m) ==
    LET d == YMD(DateOf(t))[3]
    IN IF d > DaysInMonth(y, m)
       THEN [raised |-> TRUE, date |-> t]
       ELSE [raised |-> FALSE,
             date |-> Ordinal(y, m, d) * MinutesPerDay
                        + (t % MinutesPerDay)]

\* The increment with a month of thirty days.
next_date_thirty_days(current_date, frequency) ==
    [raised |-> FALSE,
     date |-> current_date
                + (CASE frequency = "daily" -> 1
                     [] frequency = "weekly" -> 7
                     [] frequency = "biweekly" -> 14
                     [] frequency = "monthly" -> 30
                     [] OTHER -> 0) * MinutesPerDay]

\* The increment of current_date at the end of the loop body
\* (lines 475-486); a frequency none of the branches names leaves it as
\* it is.
next_date(current_date, frequency) ==
    CASE frequency = "daily" ->
            [raised |-> FALSE, date |-> current_date + MinutesPerDay]
      [] frequency = "weekly" ->
            [raised |-> FALSE, date |-> current_date + 7 * MinutesPerDay]
      [] frequency = "biweekly" ->
            [raised |-> FALSE, date |-> current_date + 14 * MinutesPerDay]
      [] frequency = "monthly" ->
            LET ymd == YMD(DateOf(current_date))
            IN IF ymd[2] = 12
               THEN replace_month(current_date, ymd[1] + 1, 1)
               ELSE replace_month(current_date, ymd[1], ymd[2] + 1)
      [] OTHER -> [raised |-> FALSE, date |-> current_date]

InRangeByTime(current_date, end_date) == current_date <= end_date

\* The loop condition (line 462): the dates are compared, not the times.
InRange(current_date, end_date) == DateOf(current_date) <= DateOf(end_date)

\* book_room as a function of the catalog: the new catalog, and whether a
\* booking (not None) is returned.
book_room(rs, room_name, start_time, duration_minutes, event_name, meeting_type, contact_name, user_id) ==
    LET room == upper(room_name)
    IN IF room \notin DOMAIN rs
       THEN [rooms |-> rs, ok |-> FALSE]
       ELSE [rooms |-> [rs EXCEPT ![room] =
                          Append(@, new_booking(start_time, duration_minutes,
                                                event_name, meeting_type,
                                                contact_name, user_id))],
             ok |-> TRUE]

RECURSIVE RecurLoopStopOnConflict(_, _, _, _, _)
RecurLoopStopOnConflict(rs, req, current_date, successful_bookings, failed_bookings) ==
    IF ~InRange(current_date, req.end_date)
    THEN [rooms |-> rs, raised |-> FALSE,
          successful |-> successful_bookings, failed |-> failed_bookings]
    ELSE IF ~check_room_availability(rs, req.room_id, current_date,
                                     req.duration_minutes)
    THEN [rooms |-> rs, raised |-> FALSE,
          successful |-> successful_bookings,
          failed |-> Append(failed_bookings, current_date)]
    ELSE LET booked == book_room(rs, req.room_id, current_date,
                                 req.duration_minutes, req.event_name,
                                 req.meeting_type, req.contact_name,
                                 req.user_id)
             next == next_date(current_date, req.frequency)
         IN IF next.raised
            THEN [rooms |-> booked.rooms, raised |-> TRUE,
                  successful |-> Append(successful_bookings, current_date),
                  failed |-> failed_bookings]
            ELSE RecurLoopStopOnConflict(booked.rooms, req, next.date,
                     Append(successful_bookings, current_date),
                     failed_bookings)

\* The loop of book_recurring_meetings (lines 462-486) from current_date
\* on: the catalog and the two lists when it returns, or when the
\* increment raises.
RECURSIVE RecurLoop(_, _, _, _, _)
RecurLoop(rs, req, current_date, successful_bookings, failed_bookings) ==
    IF ~InRange(current_date, req.end_date)
    THEN [rooms |-> rs, raised |-> FALSE,
          successful |-> successful_bookings, failed |-> failed_bookings]
    ELSE LET available == check_room_availability(rs, req.room_id,
                              current_date, req.duration_minutes)
             booked == IF available
                       THEN book_room(rs, req.room_id, current_date,
                                      req.duration_minutes, req.event_name,
                                      req.meeting_type, req.contact_name,
                                      req.user_id)
                       ELSE [rooms |-> rs, ok |-> FALSE]
             succ == IF booked.ok
                     THEN Append(successful_bookings, current_date)
                     ELSE successful_bookings
             fail == IF booked.ok
                     THEN failed_bookings
                     ELSE Append(failed_bookings, current_date)
             next == next_date(current_date, req.frequency)
         IN IF next.raised
            THEN [rooms |-> booked.rooms, raised |-> TRUE,
                  successful |-> succ, failed |-> fail]
            ELSE RecurLoop(booked.rooms, req, next.date, succ, fail)

\* Cap on the number of stored bookings at which a recurring request is
\* still made.
MaxPreBooked == 3

\* The recurring requests: <<start_date, end_date, frequency,
\* duration_minutes>>, every occurrence at 10:00.
\*   weekly   2024-11-04 .. 2024-11-25 09:00   (4 occurrences)
\*   weekly   2024-11-04 .. 2024-12-02         (5 occurrences)
\*   biweekly 2024-11-04 .. 2024-12-02         (3 occurrences)
\*   daily    2024-11-04 .. 2024-11-06, one hour and 25 hours long
\*   monthly  2024-11-04 .. 2025-01-04         (over the end of the year)
\*   monthly  2024-12-31 .. 2025-03-01         (no 31st of February)
\*   weekly   2024-11-04 .. 2024-11-04, and 2024-11-11 .. 2024-11-04
RecurRequests ==
    {<<combine(Ordinal(2024, 11, 4), 10), combine(Ordinal(2024, 11, 25), 9),
       "weekly", 60>>,
     <<combine(Ordinal(2024, 11, 4), 10), combine(Ordinal(2024, 12, 2), 10),
       "weekly", 60>>,
     <<combine(Ordinal(2024, 11, 4), 10), combine(Ordinal(2024, 12, 2), 10),
       "biweekly", 60>>,
     <<combine(Ordinal(2024, 11, 4), 10), combine(Ordinal(2024, 11, 6), 10),
       "daily", 60>>,
     <<combine(Ordinal(2024, 11, 4), 10), combine(Ordinal(2024, 11, 6), 10),
       "daily", 25 * 60>>,
     <<combine(Ordinal(2024, 11, 4), 10), combine(Ordinal(2025, 1, 4), 10),
       "monthly", 60>>,
     <<combine(Ordinal(2024, 12, 31), 10), combine(Ordinal(2025, 3, 1), 10),
       "monthly", 60>>,
     <<combine(Ordinal(2024, 11, 4), 10), combine(Ordinal(2024, 11, 4), 10),
       "weekly", 60>>,
     <<combine(Ordinal(2024, 11, 11), 10), combine(Ordinal(2024, 11, 4), 10),
       "weekly", 60>>}

\* Bookings stored before the recurring requests: 10:30-11:30 on some of
\* the five Mondays from 2024-11-04 on.
PreBookedStarts ==
    {combine(Ordinal(2024, 11, 4) + 7 * k, 10) + 30 : k \in 0..4}

\* The bookings at the start times S, in ascending order.
RECURSIVE PreBooked(_)
PreBooked(S) ==
    IF S = {} THEN <<>>
    ELSE LET s == CHOOSE x \in S : \A y \in S : x <= y
         IN <<new_booking(s, 60, "sync", "internal", "ann", "U2")>>
              \o PreBooked(S \ {s})

\* RoomManager() on a machine whose data/rooms.json holds bookings of NEST:
\* _load_rooms reads them into the room.
InitRecur ==
    /\ \E S \in SUBSET PreBookedStarts :
          /\ Cardinality(S) <= MaxPreBooked
          /\ rooms = [r \in RoomIds |->
                         IF r = "NEST" THEN PreBooked(S) ELSE <<>>]
    /\ disk = rooms
    /\ last = NoOp
    /\ pending = [t \in Threads |-> NoRequest]

\* RoomManager.book_recurring_meetings.  Every book_room call of the loop
\* saves the catalog.  The lists recorded are those returned, or, when the
\* increment raises, those built up to then.
BookRecurringMeetings(room_id, start_date, end_date, frequency, duration_minutes, event_name, meeting_type, contact_name, user_id) ==
    /\ TotalBookings(rooms) <= MaxPreBooked
    /\ LET req == [room_id |-> room_id, end_date |-> end_date,
                   frequency |-> frequency,
                   duration_minutes |-> duration_minutes,
                   event_name |-> event_name, meeting_type |-> meeting_type,
                   contact_name |-> contact_name, user_id |-> user_id]
           r == RecurLoop(rooms, req, start_date, <<>>, <<>>)
       IN /\ rooms' = r.rooms
          /\ disk' = IF r.rooms = rooms THEN disk ELSE save_rooms(r.rooms)
          /\ last' = Op("recurring", room_id, start_date, duration_minutes,
                        user_id,
                        IF r.raised THEN "ValueError" ELSE "returned")
                       @@ [end_date |-> end_date, frequency |-> frequency,
                           successful |-> r.successful, failed |-> r.failed]
    /\ UNCHANGED pending

\* MessageHandler._handle_recurring_booking_request with every field
\* matched and both dates parsed.  date_match captures the date written
\* after the room; end_date_match is the first date that follows any
\* comma, which is that same text, so end_date is a second parse of the
\* start date: the same day, or the day after when the text is "today" or
\* "tomorrow" and midnight passes between the two parses.  Past the date
\* check, int(duration_match.group(1)) raises ValueError, group 1 being
\* the number with its unit.
HandleRecurringRequest(room_id, start_written, end_written, frequency, user_id, midnight) ==
    LET start_date == start_written
        end_date == IF midnight THEN start_written + MinutesPerDay
                    ELSE start_written
    IN /\ last' = Op("handle_recurring", room_id, start_date, 0, user_id,
                     IF DateOf(start_date) >= DateOf(end_date)
                     THEN "end_not_after_start" ELSE "ValueError")
                    @@ [end_date |-> end_written, frequency |-> frequency]
       /\ UNCHANGED <<rooms, disk, pending>>

DoBookRecurring ==
    \E room \in {"NEST", "nest"}, q \in RecurRequests, ev \in EventNames,
       mt \in MeetingTypes, cn \in ContactNames :
        BookRecurringMeetings(room, q[1], q[2], q[3], q[4], ev, mt, cn, "U1")

DoHandleRecurring ==
    \E q \in RecurRequests, midnight \in BOOLEAN :
        HandleRecurringRequest("NEST", q[1], q[2], q[3], "U1", midnight)

\* Recurring requests over a catalog that holds bookings already.
NextRecur == DoBookRecurring \/ DoHandleRecurring

SpecRecur == InitRecur /\ [][NextRecur]_vars

\* ------------------------------------------------ alternative suggestions
\* The hours get_available_times_for_day probes.
first_probe_hour == 9
last_probe_hour == 17

\* The loop of get_available_times_for_day with `<` in place of `<=`.
RECURSIVE ProbeHoursBeforeLast(_, _, _, _, _)
ProbeHoursBeforeLast(rs, room_id, day, hour, duration_minutes) ==
    IF hour >= last_probe_hour THEN <<>>
    ELSE (IF check_room_availability(rs, room_id, combine(day, hour),
                                     duration_minutes)
          THEN <<combine(day, hour)>> ELSE <<>>)
           \o ProbeHoursBeforeLast(rs, room_id, day, hour + 1,
                                   duration_minutes)

\* The loop of get_available_times_for_day from hour on (lines 262-265).
RECURSIVE ProbeHours(_, _, _, _, _)
ProbeHours(rs, room_id, day, hour, duration_minutes) ==
    IF hour > last_probe_hour THEN <<>>
    ELSE (IF check_room_availability(rs, room_id, combine(day, hour),
                                     duration_minutes)
          THEN <<combine(day, hour)>> ELSE <<>>)
           \o ProbeHours(rs, room_id, day, hour + 1, duration_minutes)

get_available_times_for_day(rs, room_id, date, duration_minutes) ==
    IF room_id \notin DOMAIN rs THEN <<>>
    ELSE ProbeHours(rs, room_id, DateOf(date), first_probe_hour,
                    duration_minutes)

\* get_alternative_suggestions' test of a booking (line 280).
StartsInside(start_time, booking) ==
    /\ start_time >= fromisoformat(booking.start_time)
    /\ start_time < fromisoformat(booking.end_time)

\* The conflicting booking get_alternative_suggestions reports: the first
\* booking of the room, in stored order, that passes the test, as a list
\* of one booking; the empty list stands for None.
RECURSIVE FirstStartsInside(_, _)
FirstStartsInside(bookings, start_time) ==
    IF bookings = <<>> THEN <<>>
    ELSE IF StartsInside(start_time, Head(bookings)) THEN <<Head(bookings)>>
    ELSE FirstStartsInside(Tail(bookings), start_time)

RECURSIVE OtherRoomsWithRequested(_, _, _, _, _)
OtherRoomsWithRequested(rs, order, room_id, start_time, duration_minutes) ==
    IF order = <<>> THEN <<>>
    ELSE (IF check_room_availability(rs, Head(order), start_time,
                                     duration_minutes)
          THEN <<Head(order)>> ELSE <<>>)
           \o OtherRoomsWithRequested(rs, Tail(order), room_id, start_time,
                                      duration_minutes)

\* The other rooms that are available at the requested time (lines
\* 292-295), by room id, in the order of self.rooms.
RECURSIVE OtherRooms(_, _, _, _, _)
OtherRooms(rs, order, room_id, start_time, duration_minutes) ==
    IF order = <<>> THEN <<>>
    ELSE (IF Head(order) # room_id
             /\ check_room_availability(rs, Head(order), start_time,
                                        duration_minutes)
          THEN <<Head(order)>> ELSE <<>>)
           \o OtherRooms(rs, Tail(order), room_id, start_time,
                         duration_minutes)

get_alternative_suggestions(rs, room_id, start_time, duration_minutes) ==
    [conflicting_booking |->
         IF room_id \in DOMAIN rs
         THEN FirstStartsInside(rs[room_id], start_time) ELSE <<>>,
     available_times |->
         get_available_times_for_day(rs, room_id, start_time,
                                     duration_minutes),
     other_rooms |->
         OtherRooms(rs, RoomOrder, room_id, start_time, duration_minutes)]

\* RoomManager.get_alternative_suggestions.
GetAlternativeSuggestions(room_id, start_time, duration_minutes) ==
    /\ last' = Op("suggest", room_id, start_time, duration_minutes, "none",
                  "suggested")
                 @@ get_alternative_suggestions(rooms, room_id, start_time,
                                                duration_minutes)
    /\ UNCHANGED <<rooms, disk, pending>>

\* The requests suggestions are asked for: from 09:00 or 10:00 of the
\* second day, one or two hours long.
SuggestStarts == {combine(1, 9), combine(1, 10)}
SuggestDurations == {60, 120}

DoSuggest ==
    \E room \in RoomNames, s \in SuggestStarts, d \in SuggestDurations :
        GetAlternativeSuggestions(room, s, d)

\* Alternative suggestions over every catalog book_room can build.
NextSuggest == DoBookForSlots \/ DoSuggest

SpecSuggest == Init /\ [][NextSuggest]_vars

\* --------------------------------------------------------------- the store
\* What a call of _save_rooms leaves in data/rooms.json: the whole mapping
\* ("written"); the old contents, when open() fails ("refused"); or a
\* truncated file, when the write fails after open(..., 'w') emptied it
\* ("torn").  The exception is caught and logged inside _save_rooms in
\* both failing cases.
WriteOutcomes == {"written", "refused", "torn"}
\* A file that does not hold a mapping of rooms.
TornFile == [torn |-> TRUE]

save_rooms_to(rs, file, outcome) ==
    CASE outcome = "written" -> save_rooms(rs)
      [] outcome = "refused" -> file
      [] OTHER -> TornFile

\* RoomManager.book_room with a store that may fail (lines 149-163): the
\* booking is appended, _save_rooms is called, and the booking is returned.
BookRoomOnStore(room_name, s, d, ev, mt, cn, u, outcome) ==
    LET booked == book_room(rooms, room_name, s, d, ev, mt, cn, u)
    IN IF ~booked.ok
       THEN /\ last' = Op("book", room_name, s, d, u, "None")
                         @@ [write |-> "none"]
            /\ UNCHANGED <<rooms, disk, pending>>
       ELSE /\ TotalBookings(rooms) < MaxBookings
            /\ rooms' = booked.rooms
            /\ disk' = save_rooms_to(rooms', disk, outcome)
            /\ last' = Op("book", room_name, s, d, u, "booked")
                         @@ [write |-> outcome]
            /\ UNCHANGED pending

\* RoomManager.cancel_booking with a store that may fail (lines 173-198).
CancelBookingOnStore(room_id, t, u, outcome) ==
    IF room_id \notin DOMAIN rooms
    THEN /\ last' = Op("cancel", room_id, t, 0, u, "room_not_found")
                      @@ [write |-> "none"]
         /\ UNCHANGED <<rooms, disk, pending>>
    ELSE LET i == FirstMatch(rooms[room_id], t, 1) IN
         IF i = 0
         THEN /\ last' = Op("cancel", room_id, t, 0, u, "not_found")
                           @@ [write |-> "none"]
              /\ UNCHANGED <<rooms, disk, pending>>
         ELSE IF ~Authorized(rooms[room_id][i], u)
         THEN /\ last' = Op("cancel", room_id, t, 0, u, "unauthorized")
                           @@ [write |-> "none"]
              /\ UNCHANGED <<rooms, disk, pending>>
         ELSE /\ rooms' = [rooms EXCEPT ![room_id] = RemoveAt(@, i)]
              /\ disk' = save_rooms_to(rooms', disk, outcome)
              /\ last' = Op("cancel", room_id, t, 0, u, "cancelled")
                           @@ [write |-> outcome]
              /\ UNCHANGED pending

\* The calls on the failing store name one room of the catalog, or a room
\* it does not hold.
DoBookOnStore ==
    \E room \in {"NEST", "ATTIC"}, s \in Starts, ev \in EventNames,
       mt \in MeetingTypes, cn \in ContactNames, u \in Users,
       outcome \in WriteOutcomes :
        BookRoomOnStore(room, s, 1, ev, mt, cn, u, outcome)

DoCancelOnStore ==
    \E room \in {"NEST", "ATTIC"}, s \in Starts, u \in Users,
       outcome \in WriteOutcomes :
        CancelBookingOnStore(room, s, u, outcome)

\* Book and Cancel on a store whose writes may fail.
NextStore == DoBookOnStore \/ DoCancelOnStore

SpecStore == Init /\ [][NextStore]_vars

\* One-minute bookings of known and unknown rooms.
DoBookAnyRoom ==
    \E room \in RoomIds \cup {"ATTIC"}, s \in Starts, ev \in EventNames,
       mt \in MeetingTypes, cn \in ContactNames, u \in Users :
        BookRoom(room, s, 1, ev, mt, cn, u)

\* Booking commands of one user with a one-minute or an unreadable
\* duration.
DoHandleBookingShort ==
    \E room \in RoomIds, s \in Starts,
       text \in {x \in DurationTexts : x.form \in {"m", "mh"}},
       ev \in EventNames, mt \in MeetingTypes, cn \in ContactNames :
        HandleBookingRequest(room, s, text, ev, mt, cn, "U1")

\* Book, the booking command and Cancel on a store whose writes succeed.
NextWrite == DoBookAnyRoom \/ DoHandleBookingShort \/ DoCancel

SpecWrite == Init /\ [][NextWrite]_vars

\* ----------------------------------- the recurring loop, pass by pass
\* Cap on the number of passes of the loop that are followed.
MaxPasses == 4

\* The requests followed pass by pass: two of RecurRequests, and one with
\* a frequency that none of the branches of the increment names.
StepRequests ==
    {q \in RecurRequests : q[3] \in {"biweekly", "monthly"}}
      \cup {<<combine(Ordinal(2024, 11, 4), 10),
              combine(Ordinal(2024, 11, 6), 10), "yearly", 60>>}

\* The call of book_recurring_meetings up to the loop (lines 459-461):
\* last holds the arguments and the local variables of the running call.
RecurringCall(room_id, start_date, end_date, frequency, duration_minutes, event_name, meeting_type, contact_name, user_id) ==
    /\ last.result # "running"
    /\ TotalBookings(rooms) <= MaxPreBooked
    /\ last' = Op("recurring", room_id, start_date, duration_minutes,
                  user_id, "running")
                 @@ [end_date |-> end_date, frequency |-> frequency,
                     event_name |-> event_name,
                     meeting_type |-> meeting_type,
                     contact_name |-> contact_name,
                     current_date |-> start_date,
                     successful |-> <<>>, failed |-> <<>>]
    /\ UNCHANGED <<rooms, disk, pending>>

\* One test of the loop condition and, if it holds, one pass of the body
\* (lines 462-486); the return when it does not (line 488).
RecurringPass ==
    /\ last.result = "running"
    /\ Len(last.successful) + Len(last.failed) < MaxPasses
    /\ IF ~InRange(last.current_date, last.end_date)
       THEN /\ last' = [last EXCEPT !.result = "returned"]
            /\ UNCHANGED <<rooms, disk, pending>>
       ELSE LET available == check_room_availability(rooms, last.room,
                                 last.current_date, last.dur)
                booked == IF available
                          THEN book_room(rooms, last.room, last.current_date,
                                         last.dur, last.event_name,
                                         last.meeting_type,
                                         last.contact_name, last.user)
                          ELSE [rooms |-> rooms, ok |-> FALSE]
                next == next_date(last.current_date, last.frequency)
            IN /\ rooms' = booked.rooms
               /\ disk' = IF booked.ok THEN save_rooms(rooms') ELSE disk
               /\ last' = [last EXCEPT
                             !.successful =
                                 IF booked.ok
                                 THEN Append(@, last.current_date) ELSE @,
                             !.failed =
                                 IF booked.ok
                                 THEN @ ELSE Append(@, last.current_date),
                             !.current_date = next.date,
                             !.result = IF next.raised THEN "ValueError"
                                        ELSE "running"]
               /\ UNCHANGED pending

DoRecurringCall ==
    \E room \in {"NEST", "nest"}, q \in StepRequests, ev \in EventNames,
       mt \in MeetingTypes, cn \in ContactNames :
        RecurringCall(room, q[1], q[2], q[3], q[4], ev, mt, cn, "U1")

\* Recurring requests, one pass of the loop at a time.
NextPasses == DoRecurringCall \/ RecurringPass

SpecPasses == InitRecur /\ [][NextPasses]_vars

\* ------------------------------------------- slots over signed durations
\* book_room takes duration_minutes as any int: the bookings of the slot
\* queries and one of minus two hours from 12:00 of the second day.
SignedSlotBookings == SlotBookings \cup {<<combine(1, 12), 0 - 120>>}

DoBookSigned ==
    \E p \in SignedSlotBookings, ev \in EventNames, mt \in MeetingTypes,
       cn \in ContactNames :
        BookRoom("NEST", p[1], p[2], ev, mt, cn, "U1")

\* The free slots of a day over every catalog book_room can build with
\* durations of either sign.
NextSlotsSigned == DoBookSigned \/ DoSlots

SpecSlotsSigned == Init /\ [][NextSlotsSigned]_vars

\* ------------------------------------------------- hourly candidate times
\* RoomManager.get_available_times_for_day.
GetAvailableTimesForDay(room_id, date, duration_minutes) ==
    /\ last' = Op("times", room_id, date, duration_minutes, "none", "listed")
                 @@ [times |-> get_available_times_for_day(
                                   rooms, room_id, date, duration_minutes)]
    /\ UNCHANGED <<rooms, disk, pending>>

DoTimes ==
    \E room \in RoomNames, date \in SlotDates, d \in SuggestDurations :
        GetAvailableTimesForDay(room, date, d)

\* The candidate times of a day over every catalog book_room can build.
NextTimes == DoBookForSlots \/ DoTimes

SpecTimes == Init /\ [][NextTimes]_vars

\* ------------------------------------------- the alternatives of a refusal
\* The number of same-room times _format_alternative_suggestions lists.
max_alternatives == 8

Min(a, b) == IF a <= b THEN a ELSE b

ShownTimesAll(available_times) == available_times

\* alternatives["available_times"][:8] (line 267).
ShownTimes(available_times) ==
    SubSeq(available_times, 1, Min(max_alternatives, Len(available_times)))

\* The refusal of _handle_booking_request (lines 117-119): the room is not
\* available, the suggestions are asked for and formatted; shown_times are
\* the same-room times the message lists.
SuggestAlternatives(room_id, start_time, duration_minutes) ==
    /\ ~check_room_availability(rooms, room_id, start_time, duration_minutes)
    /\ LET alternatives == get_alternative_suggestions(
                               rooms, room_id, start_time, duration_minutes)
       IN last' = Op("alternatives", room_id, start_time, duration_minutes,
                     "none", "not_available")
                    @@ alternatives
                    @@ [shown_times |-> ShownTimes(alternatives.available_times)]
    /\ UNCHANGED <<rooms, disk, pending>>

\* The requests that are refused: from 09:00, 10:00, 17:30 or 19:00 of the
\* second day, one or two hours long.
RefusedStarts == SuggestStarts \cup {combine(1, 17) + 30, combine(1, 19)}

DoSuggestAlternatives ==
    \E room \in RoomIds, s \in RefusedStarts, d \in SuggestDurations :
        SuggestAlternatives(room, s, d)

\* Refused booking requests over every catalog book_room can build.
NextAlternatives == DoBookForSlots \/ DoSuggestAlternatives

SpecAlternatives == Init /\ [][NextAlternatives]_vars

\* ------------------------------------------------------ the read-only calls
\* check_room_availability, get_alternative_suggestions,
\* get_available_slots, get_available_times_for_day and get_user_bookings
\* over every catalog book_room can build.
NextReads == DoBookForSlots \/ DoCheck \/ DoSuggest \/ DoSlots \/ DoTimes \/ DoList

SpecReads == Init /\ [][NextReads]_vars

\* ----------------------------------------------------------------- startup
\* data/rooms.json as the process may find it: not there; a mapping of
\* rooms the program wrote; not JSON at all (TornFile); or a mapping in
\* which the record of a room lacks its "name" (here the second room, the
\* first being complete).
AbsentFile == [absent |-> TRUE]
NamelessFile == [NEST |-> <<>>, RAVEN |-> <<>>, nameless |-> "RAVEN"]
WrittenFiles ==
    {[r \in RoomIds |-> <<>>]}
      \cup {[r \in RoomIds |->
                IF r = "NEST"
                THEN <<new_booking(s, d, "sync", "internal", "ann", "U1")>>
                ELSE <<>>] : s \in Starts, d \in Durations}
StartupFiles == {AbsentFile, TornFile, NamelessFile} \cup WrittenFiles

FileKind(file) ==
    CASE "absent" \in DOMAIN file -> "absent"
      [] "torn" \in DOMAIN file -> "corrupt"
      [] "nameless" \in DOMAIN file -> "malformed"
      [] OTHER -> "valid"

\* self.rooms = {}
NoRooms == [r \in {} |-> <<>>]

\* _load_rooms (lines 42-73), as the rooms it leaves and the file it
\* leaves: the default rooms, saved, when there is no file; the rooms of
\* the file with their bookings; and no room at all when json.load or a
\* record's lookup raises, the exception being caught and logged.
startup_load_rooms(file) ==
    CASE FileKind(file) = "absent" ->
            [rooms |-> [r \in RoomIds |-> <<>>],
             file |-> save_rooms([r \in RoomIds |-> <<>>])]
      [] FileKind(file) = "valid" -> [rooms |-> file, file |-> file]
      [] OTHER -> [rooms |-> NoRooms, file |-> file]

\* The process before main() has run.
InitStartup ==
    /\ rooms = NoRooms
    /\ disk \in StartupFiles
    /\ last = NoOp
    /\ pending = [t \in Threads |-> NoRequest]

\* main() (lines 13-22): RoomManager() loads the rooms, the bot is built
\* and started, and commands are served from then on.
Main ==
    /\ last.op = "none"
    /\ LET loaded == startup_load_rooms(disk)
       IN /\ rooms' = loaded.rooms
          /\ disk' = loaded.file
          /\ last' = Op("main", "none", 0, 0, "none", "serving")
                       @@ [file |-> FileKind(disk)]
    /\ UNCHANGED pending

\* A booking command served by the running bot.
ServeBooking ==
    /\ last.op # "none"
    /\ DoHandleBooking

NextStartup == Main \/ ServeBooking

SpecStartup == InitStartup /\ [][NextStartup]_vars

\* ------------------------------------------------- the cancel commands
\* cancel_booking as a function of the catalog, without the owner check.
cancel_booking_unchecked(rs, room_id, start_time, user_id) ==
    IF room_id \notin DOMAIN rs
    THEN [rooms |-> rs, result |-> "room_not_found"]
    ELSE LET i == FirstMatch(rs[room_id], start_time, 1)
         IN IF i = 0
            THEN [rooms |-> rs, result |-> "not_found"]
            ELSE [rooms |-> [rs EXCEPT ![room_id] = RemoveAt(@, i)],
                  result |-> "cancelled"]

\* cancel_booking as a function of the catalog (lines 173-198): the new
\* catalog and the answer.
cancel_booking(rs, room_id, start_time, user_id) ==
    IF room_id \notin DOMAIN rs
    THEN [rooms |-> rs, result |-> "room_not_found"]
    ELSE LET i == FirstMatch(rs[room_id], start_time, 1)
         IN IF i = 0
            THEN [rooms |-> rs, result |-> "not_found"]
            ELSE IF ~Authorized(rs[room_id][i], user_id)
            THEN [rooms |-> rs, result |-> "unauthorized"]
            ELSE [rooms |-> [rs EXCEPT ![room_id] = RemoveAt(@, i)],
                  result |-> "cancelled"]

\* The loop of _handle_booking_cancellation over bookings_to_cancel (lines
\* 315-323): the catalog it leaves and the bookings it cancelled.
RECURSIVE CancelLoop(_, _, _, _)
CancelLoop(rs, bookings_to_cancel, user_id, cancelled_bookings) ==
    IF bookings_to_cancel = <<>>
    THEN [rooms |-> rs, cancelled |-> cancelled_bookings]
    ELSE LET booking == Head(bookings_to_cancel)
             done == cancel_booking(rs, booking.room_id,
                                    fromisoformat(booking.start_time),
                                    user_id)
         IN CancelLoop(done.rooms, Tail(bookings_to_cancel), user_id,
                       IF done.result = "cancelled"
                       THEN Append(cancelled_bookings, booking)
                       ELSE cancelled_bookings)

\* The booking numbers a cancel command can carry, and the clock values
\* during a command: before every booking, and at the first start time.
NumberLists == {<<1>>, <<2>>, <<1, 2>>, <<3>>}
CommandClock == {0 - 1, 0}

\* range(1, n + 1) as a list.
NumbersUpTo(n) == [i \in 1..n |-> i]

\* MessageHandler._handle_booking_cancellation; current_time is what
\* datetime.now() returns in get_user_bookings.
HandleBookingCancellation(user_id, booking_numbers, cancel_all, current_time) ==
    LET current_bookings == get_user_bookings(rooms, user_id, current_time)
        numbers == IF cancel_all THEN NumbersUpTo(Len(current_bookings))
                   ELSE booking_numbers
        Answer(res, cancelled) ==
            Op("handle_cancel", "none", 0, 0, user_id, res)
              @@ [now |-> current_time, cancel_all |-> cancel_all,
                  numbers |-> numbers, listed |-> current_bookings,
                  cancelled |-> cancelled]
    IN IF current_bookings = <<>>
       THEN /\ last' = Answer("no_bookings", <<>>)
            /\ UNCHANGED <<rooms, disk, pending>>
       ELSE IF numbers = <<>>
       THEN /\ last' = Answer("no_numbers", <<>>)
            /\ UNCHANGED <<rooms, disk, pending>>
       ELSE IF \E k \in 1..Len(numbers) :
                  numbers[k] < 1 \/ numbers[k] > Len(current_bookings)
       THEN /\ last' = Answer("invalid_numbers", <<>>)
            /\ UNCHANGED <<rooms, disk, pending>>
       ELSE LET bookings_to_cancel ==
                    [k \in 1..Len(numbers) |-> current_bookings[numbers[k]]]
                loop == CancelLoop(rooms, bookings_to_cancel, user_id, <<>>)
            IN /\ rooms' = loop.rooms
               /\ disk' = IF loop.cancelled = <<>> THEN disk
                          ELSE save_rooms(rooms')
               /\ last' = Answer(IF loop.cancelled = <<>>
                                 THEN "none_cancelled" ELSE "cancelled",
                                 loop.cancelled)
               /\ UNCHANGED pending

DoCancelByNumber ==
    \E u \in Users, numbers \in NumberLists, current_time \in CommandClock :
        HandleBookingCancellation(u, numbers, FALSE, current_time)

DoCancelAll ==
    \E u \in Users, current_time \in CommandClock :
        HandleBookingCancellation(u, <<>>, TRUE, current_time)

\* A recurring booking command of either user: weekly from 2024-11-04 to
\* 2024-12-02.
DoHandleRecurringAnyUser ==
    \E u \in Users, midnight \in BOOLEAN :
        HandleRecurringRequest("NEST", combine(Ordinal(2024, 11, 4), 10), combine(Ordinal(2024, 12, 2), 10), "weekly", u, midnight)

\* A booking command of either user, for one minute or for "0h".
DoHandleBookingBrief ==
    \E room \in RoomIds, s \in Starts,
       text \in {x \in DurationTexts : x.form \in {"m", "h"}},
       ev \in EventNames, mt \in MeetingTypes, cn \in ContactNames,
       u \in Users :
        HandleBookingRequest(room, s, text, ev, mt, cn, u)

\* The booking and cancel commands of two users, one handled at a time.
NextUserCommands == DoHandleBookingBrief \/ DoHandleRecurringAnyUser \/ DoCancelByNumber \/ DoCancelAll

SpecUserCommands == Init /\ [][NextUserCommands]_vars

\* MessageHandler._handle_cancellation_request (lines 175-197): the user's
\* bookings are listed under the numbers 1, 2, ...
HandleCancellationRequest(user_id, current_time) ==
    LET bookings == get_user_bookings(rooms, user_id, current_time)
    IN /\ last' = Op("handle_list", "none", 0, 0, user_id,
                     IF bookings = <<>> THEN "no_bookings" ELSE "listed")
                    @@ [now |-> current_time, listed |-> bookings]
       /\ UNCHANGED <<rooms, disk, pending>>

DoListForCancel ==
    \E u \in Users, current_time \in CommandClock :
        HandleCancellationRequest(u, current_time)

\* Numbered lists and the cancel commands that answer them.
NextNumbered == DoHandleBookingBrief \/ DoListForCancel \/ DoCancelByNumber

SpecNumbered == Init /\ [][NextNumbered]_vars

\* ------------------------------ the handler's own recurring booking loops
\* The expansion loop of _handle_recurring_booking_request (lines 404-419),
\* from current_date on: the dates collected, or that the step to the next
\* month raised.  Its loop condition and its increments are those of
\* book_recurring_meetings, written out a second time.
RECURSIVE ExpandDates(_, _, _, _)
ExpandDates(current_date, end_date, frequency, booking_dates) ==
    IF ~InRange(current_date, end_date)
    THEN [raised |-> FALSE, dates |-> booking_dates]
    ELSE LET next == next_date(current_date, frequency)
         IN IF next.raised
            THEN [raised |-> TRUE, dates |-> Append(booking_dates, current_date)]
            ELSE ExpandDates(next.date, end_date, frequency,
                             Append(booking_dates, current_date))

\* The booking loop over booking_dates (lines 421-437).
RECURSIVE BookDates(_, _, _, _, _)
BookDates(rs, req, booking_dates, successful_bookings, failed_bookings) ==
    IF booking_dates = <<>>
    THEN [rooms |-> rs, successful |-> successful_bookings,
          failed |-> failed_bookings]
    ELSE LET booking_date == Head(booking_dates)
             available == check_room_availability(rs, req.room_id,
                              booking_date, req.duration_minutes)
             booked == IF available
                       THEN book_room(rs, req.room_id, booking_date,
                                      req.duration_minutes, req.event_name,
                                      req.meeting_type, req.contact_name,
                                      req.user_id)
                       ELSE [rooms |-> rs, ok |-> FALSE]
         IN BookDates(booked.rooms, req, Tail(booking_dates),
                      IF booked.ok
                      THEN Append(successful_bookings, booking_date)
                      ELSE successful_bookings,
                      IF booked.ok
                      THEN failed_bookings
                      ELSE Append(failed_bookings, booking_date))

\* Lines 399-437 as a function of the catalog: expand every date, then
\* book each; when the expansion raises nothing has been booked yet.
ExpandThenBook(rs, req, start_date) ==
    LET expanded == ExpandDates(start_date, req.end_date, req.frequency, <<>>)
    IN IF expanded.raised
       THEN [rooms |-> rs, raised |-> TRUE, successful |-> <<>>,
             failed |-> <<>>]
       ELSE BookDates(rs, req, expanded.dates, <<>>, <<>>)
              @@ [raised |-> FALSE]

\* ------------------------------------------------------------------ claims
\* The interval of a stored booking.
StartOf(b) == fromisoformat(b.start_time)
EndOf(b) == fromisoformat(b.end_time)
\* The half-open overlap rule on two intervals [s1, e1) and [s2, e2).
HalfOpenOverlap(s1, e1, s2, e2) == s1 < e2 /\ s2 < e1
Stored(r) == {rooms[r][i] : i \in 1..Len(rooms[r])}
\* The least index of a booking of room r that starts at t (0 if none).
FirstAt(r, t) ==
    LET I == {i \in 1..Len(rooms[r]) : StartOf(rooms[r][i]) = t}
    IN IF I = {} THEN 0 ELSE CHOOSE i \in I : \A j \in I : i <= j

\* C1: in every reachable state, any two distinct stored bookings of a room
\* are non-overlapping under the half-open rule.
C1_NoTwoBookingsOverlap ==
    \A r \in RoomIds : \A i, j \in 1..Len(rooms[r]) :
        i # j => ~HalfOpenOverlap(StartOf(rooms[r][i]), EndOf(rooms[r][i]),
                                  StartOf(rooms[r][j]), EndOf(rooms[r][j]))

\* C2: Book on an existing room with an interval that overlaps a stored
\* booking of that room fails with a conflict result and appends nothing.
C2_BookRechecksAvailability ==
    [][(/\ last'.op = "book"
        /\ upper(last'.room) \in RoomIds
        /\ \E b \in Stored(upper(last'.room)) :
              HalfOpenOverlap(last'.start, last'.start + last'.dur,
                              StartOf(b), EndOf(b)))
       => (last'.result = "conflict" /\ rooms' = rooms)]_vars

\* C3: with two booking commands for the same room handled concurrently,
\* at most one of two overlapping requests is confirmed: the room never
\* holds both bookings.
C3_ConcurrentRequestsNeverBothBooked ==
    \A r \in RoomIds :
        ~\E i, j \in 1..Len(rooms[r]) :
            /\ i < j
            /\ StartOf(rooms[r][i]) < EndOf(rooms[r][j])
            /\ StartOf(rooms[r][j]) < EndOf(rooms[r][i])

\* C4: a successful Book followed immediately by IsAvailable on the same
\* room and the identical interval returns false.
C4_BookThenCheckIsFalse ==
    [][(/\ last.op = "book"
        /\ last.result = "booked"
        /\ last'.op = "check"
        /\ last'.room = upper(last.room)
        /\ last'.start = last.start
        /\ last'.dur = last.dur)
       => last'.result = "False"]_vars

\* C5: IsAvailable is false for an unknown room; for a known room it is
\* false exactly when some stored booking b of the room has
\* s < b.end and b.start < e.
C5_AvailabilityIsHalfOpenOverlap ==
    last.op = "check" =>
        IF last.room \notin RoomIds
        THEN last.result = "False"
        ELSE (last.result = "False") <=>
                \E b \in Stored(last.room) :
                    /\ last.start < EndOf(b)
                    /\ StartOf(b) < last.start + last.dur

\* A check of a non-empty interval that starts exactly at a stored
\* booking's end, or ends exactly at its start, answered "available".
C5_Witness ==
    /\ last.op = "check"
    /\ last.room \in RoomIds
    /\ last.dur > 0
    /\ last.result = "True"
    /\ \E b \in Stored(last.room) :
          /\ StartOf(b) < EndOf(b)
          /\ (EndOf(b) = last.start \/ StartOf(b) = last.start + last.dur)

\* C6: a Cancel for a start time at which no booking of the room starts is
\* answered not-found and changes nothing.
C6_CancelMatchesExactStart ==
    [][(/\ last'.op = "cancel"
        /\ last'.room \in RoomIds
        /\ \A b \in Stored(last'.room) : StartOf(b) # last'.start)
       => (last'.result = "not_found" /\ rooms' = rooms /\ disk' = disk)]_vars

\* A Cancel answered not-found whose start time lies strictly inside a
\* stored booking of the room.
C6_Witness ==
    /\ last.op = "cancel"
    /\ last.room \in RoomIds
    /\ last.result = "not_found"
    /\ \E b \in Stored(last.room) :
          StartOf(b) < last.start /\ last.start < EndOf(b)

\* C7: a Cancel by someone other than the owner of the booking found at the
\* start time is answered unauthorized and changes nothing; the owner's
\* Cancel of that booking issued next succeeds and removes exactly it.
C7_UnauthorizedThenOwnerCancels ==
    [][/\ (/\ last'.op = "cancel"
           /\ last'.room \in RoomIds
           /\ FirstAt(last'.room, last'.start) # 0
           /\ rooms[last'.room][FirstAt(last'.room, last'.start)].user_id
                 # last'.user)
          => (/\ last'.result = "unauthorized"
              /\ rooms' = rooms
              /\ disk' = disk)
       /\ (/\ last.op = "cancel"
           /\ last.result = "unauthorized"
           /\ last'.op = "cancel"
           /\ last'.room = last.room
           /\ last'.start = last.start
           /\ last'.user = rooms[last.room][FirstAt(last.room, last.start)].user_id)
          => (/\ last'.result = "cancelled"
              /\ rooms' = [rooms EXCEPT ![last.room] =
                              RemoveAt(@, FirstAt(last.room, last.start))])]_vars

\* A Cancel answered unauthorized, with the booking of another user still
\* stored at that start time.
C7_Witness ==
    /\ last.op = "cancel"
    /\ last.result = "unauthorized"
    /\ FirstAt(last.room, last.start) # 0
    /\ rooms[last.room][FirstAt(last.room, last.start)].user_id # last.user

\* C8: after a successful Cancel, the identical Cancel repeated at once is
\* answered not-found.
C8_SecondCancelNotFound ==
    [][(/\ last.op = "cancel"
        /\ last.result = "cancelled"
        /\ last'.op = "cancel"
        /\ last'.room = last.room
        /\ last'.start = last.start
        /\ last'.user = last.user)
       => last'.result = "not_found"]_vars

\* C9: a stored booking stays in its room, unchanged, over every step that
\* is not a successful Cancel by its owner at its exact start time.
C9_OnlyOwnerCancelDestroys ==
    [][\A r \in RoomIds : \A b \in Stored(r) :
          \/ \E i \in 1..Len(rooms'[r]) : rooms'[r][i] = b
          \/ /\ last'.op = "cancel"
             /\ last'.result = "cancelled"
             /\ last'.room = r
             /\ last'.start = StartOf(b)
             /\ last'.user = b.user_id]_vars

\* C10: every stored booking has end > start and end = start + duration,
\* and a Book request with a duration of zero or less is rejected as an
\* invalid interval.
C10_StoredIntervalsArePositive ==
    /\ \A r \in RoomIds : \A b \in Stored(r) :
          /\ EndOf(b) > StartOf(b)
          /\ EndOf(b) = StartOf(b) + b.duration_minutes
    /\ (last.op \in {"book", "handle_book"} /\ last.dur <= 0
        /\ last.result # "error")
          => last.result = "invalid_interval"

\* C11: room identifiers are case-insensitive in every engine operation: a
\* call naming a room in another letter case gives the result and the state
\* change of the same call naming the room by its key.
C11_RoomIdsAreCaseInsensitive ==
    [][/\ (last'.op = "check" /\ last'.room \notin RoomIds
             /\ upper(last'.room) \in RoomIds)
            => ((last'.result = "True") <=>
                   check_room_availability(rooms, upper(last'.room),
                                           last'.start, last'.dur))
       /\ (last'.op = "cancel" /\ last'.room \notin RoomIds
             /\ upper(last'.room) \in RoomIds)
            => last'.result # "room_not_found"]_vars

\* The indices of the bookings of room r that user u owns and that start
\* strictly after time t.
FutureOf(r, u, t) ==
    {i \in 1..Len(rooms[r]) :
        rooms[r][i].user_id = u /\ StartOf(rooms[r][i]) > t}
\* The positions of the list l that hold booking b of room r.
Listed(l, r, b) ==
    {k \in 1..Len(l) :
        l[k] = b @@ [room_id |-> r, room_name |-> RoomNameOf[r]]}

\* C12 (as stated): the list of a user's bookings is decided by the owner
\* and the time the caller supplies; the callers of the code supply the
\* owner only, so two calls in a row for the same owner return the same
\* sequence.
C12_ListDecidedByCallersArguments ==
    [][(last.op = "list" /\ last'.op = "list" /\ last'.user = last.user)
       => last'.bookings = last.bookings]_vars

\* C12 (amended): the list of a user's bookings holds exactly the bookings,
\* across all rooms, that the user owns and that start strictly after the
\* time the clock shows during the call, each as often as it is stored, in
\* ascending order of start time.
C12_ListIsFutureBookingsOfOwner ==
    last.op = "list" =>
        /\ \A k \in 1..Len(last.bookings) :
              /\ last.bookings[k].room_id \in RoomIds
              /\ \E i \in FutureOf(last.bookings[k].room_id, last.user,
                                   last.now) :
                    Listed(last.bookings, last.bookings[k].room_id,
                           rooms[last.bookings[k].room_id][i]) # {}
                    /\ k \in Listed(last.bookings, last.bookings[k].room_id,
                                    rooms[last.bookings[k].room_id][i])
        /\ \A r \in RoomIds : \A i \in FutureOf(r, last.user, last.now) :
              Cardinality(Listed(last.bookings, r, rooms[r][i]))
                = Cardinality({j \in FutureOf(r, last.user, last.now) :
                                  rooms[r][j] = rooms[r][i]})
        /\ \A k \in 1..(Len(last.bookings) - 1) :
              StartOf(last.bookings[k]) <= StartOf(last.bookings[k + 1])

\* A list of two bookings that the sort had to reorder: the booking of the
\* later room starts first, on the day before the other one.
C12_Witness ==
    /\ last.op = "list"
    /\ Len(last.bookings) = 2
    /\ last.bookings[1].room_id = "RAVEN"
    /\ last.bookings[2].room_id = "NEST"
    /\ StartOf(last.bookings[1]) < StartOf(last.bookings[2])
    /\ last.bookings[1].start_time[1] < last.bookings[2].start_time[1]

\* C13: every interval AvailableSlots returns lies inside the business
\* hours of the day asked for: it starts at or after 09:00 and ends at or
\* before 18:00.
C13_SlotsInsideBusinessHours ==
    last.op = "slots" =>
        \A k \in 1..Len(last.slots) :
            /\ last.slots[k][1] >= combine(DateOf(last.start), 9)
            /\ last.slots[k][2] <= combine(DateOf(last.start), 18)

\* C14: every interval AvailableSlots returns is free: it overlaps no
\* stored booking of the room.
C14_SlotsAreFree ==
    (last.op = "slots" /\ last.room \in RoomIds) =>
        \A k \in 1..Len(last.slots) : \A b \in Stored(last.room) :
            ~HalfOpenOverlap(last.slots[k][1], last.slots[k][2],
                             StartOf(b), EndOf(b))

\* The elements of a sequence.
Range(s) == {s[i] : i \in 1..Len(s)}
\* The occurrences a recurring call attempted: those it reports as booked
\* and those it reports as failed.
Attempted(l) == Range(l.successful) \cup Range(l.failed)
\* The step of a frequency in days.
StepDays(frequency) ==
    CASE frequency = "daily" -> 1
      [] frequency = "weekly" -> 7
      [] frequency = "biweekly" -> 14
\* start + k * step for k = 0, 1, 2, ... as long as the date is not after
\* the end date.
SteppedOccurrences(start, end, frequency) ==
    {t \in {start + k * StepDays(frequency) * MinutesPerDay : k \in 0..150} :
        DateOf(t) <= DateOf(end)}
\* Ascending without repetition.
Ascending(s) == \A i \in 1..(Len(s) - 1) : s[i] < s[i + 1]

\* C15: for daily, weekly and biweekly frequency the occurrences are
\* exactly start + k * step (step = 1, 7, 14 days; k = 0, 1, 2, ...) whose
\* date is not after the end date, the end date itself included, each
\* once and in ascending order, at the time of day of the start.
C15_FixedStepOccurrences ==
    (last.op = "recurring"
       /\ last.frequency \in {"daily", "weekly", "biweekly"}) =>
        /\ Attempted(last)
             = SteppedOccurrences(last.start, last.end_date, last.frequency)
        /\ Len(last.successful) + Len(last.failed)
             = Cardinality(Attempted(last))
        /\ Ascending(last.successful)
        /\ Ascending(last.failed)
        /\ \A t \in Attempted(last) :
              t % MinutesPerDay = last.start % MinutesPerDay

\* Weekly from 2024-11-04 10:00 to 2024-11-25 (given as 09:00 of that day)
\* into a free room: 4, 11, 18 and 25 November, 10:00 each.
C15_Witness ==
    /\ last.op = "recurring"
    /\ last.frequency = "weekly"
    /\ last.end_date = combine(Ordinal(2024, 11, 25), 9)
    /\ last.successful = <<combine(Ordinal(2024, 11, 4), 10),
                           combine(Ordinal(2024, 11, 11), 10),
                           combine(Ordinal(2024, 11, 18), 10),
                           combine(Ordinal(2024, 11, 25), 10)>>
    /\ last.failed = <<>>

\* The day of the month of a datetime.
DayOfMonth(t) == YMD(DateOf(t))[3]
\* The number of days of the month that follows the month of a datetime.
DaysInNextMonth(t) ==
    LET ymd == YMD(DateOf(t))
    IN IF ymd[2] = 12 THEN DaysInMonth(ymd[1] + 1, 1)
       ELSE DaysInMonth(ymd[1], ymd[2] + 1)

\* C16: for monthly frequency, the request fails with an error exactly
\* when the month after an occurrence has no day with the occurrence's
\* day of the month; no occurrence, and no booking the request adds, is
\* ever on another day of the month than the start (none rolled into the
\* following month, none clamped).
C16_MonthlyOverflowFails ==
    [][(last'.op = "recurring" /\ last'.frequency = "monthly") =>
        /\ (last'.result = "ValueError") <=>
              \E t \in Attempted(last') : DaysInNextMonth(t) < DayOfMonth(t)
        /\ \A t \in Attempted(last') :
              /\ DayOfMonth(t) = DayOfMonth(last'.start)
              /\ t % MinutesPerDay = last'.start % MinutesPerDay
        /\ \A r \in RoomIds :
              \A i \in (Len(rooms[r]) + 1)..Len(rooms'[r]) :
                  DayOfMonth(StartOf(rooms'[r][i])) = DayOfMonth(last'.start)]_vars

\* Monthly from 2024-12-31: after 31 December and 31 January the step into
\* February fails.
C16_Witness ==
    /\ last.op = "recurring"
    /\ last.frequency = "monthly"
    /\ last.result = "ValueError"
    /\ Attempted(last) = {combine(Ordinal(2024, 12, 31), 10),
                          combine(Ordinal(2025, 1, 31), 10)}

\* C17: a recurring request whose start date is not strictly before its
\* end date (dates compared without the time of day) fails with an
\* invalid-date-range error before any occurrence is generated, and adds
\* no booking.
C17_EndNotAfterStartIsRejected ==
    [][(last'.op = "recurring"
          /\ DateOf(last'.start) >= DateOf(last'.end_date)) =>
        /\ last'.result = "invalid_date_range"
        /\ Attempted(last') = {}
        /\ rooms' = rooms]_vars

\* The occurrences of a monthly request that meets no month without the
\* day: the datetimes from the start to the end date that have the start's
\* day of the month and time of day.
MonthlyOccurrences(start, end) ==
    {d * MinutesPerDay + (start % MinutesPerDay) :
        d \in {x \in DateOf(start)..DateOf(end) :
                  DayOfMonth(x * MinutesPerDay) = DayOfMonth(start)}}
\* The occurrences of a request.
Occurrences(start, end, frequency) ==
    IF frequency = "monthly" THEN MonthlyOccurrences(start, end)
    ELSE SteppedOccurrences(start, end, frequency)

\* C18: every occurrence of a recurring booking is attempted, whatever
\* happened to the earlier ones, and the result is a partition: every
\* occurrence is in exactly one of the successful list and the failed
\* list, once.
C18_ResultIsAPartition ==
    (last.op = "recurring" /\ last.result = "returned") =>
        /\ Range(last.successful) \cup Range(last.failed)
             = Occurrences(last.start, last.end_date, last.frequency)
        /\ Range(last.successful) \cap Range(last.failed) = {}
        /\ Len(last.successful) = Cardinality(Range(last.successful))
        /\ Len(last.failed) = Cardinality(Range(last.failed))

\* A result in which an occurrence that failed on a conflict is followed
\* by a later occurrence that was booked.
C18_Witness ==
    /\ last.op = "recurring"
    /\ last.result = "returned"
    /\ last.room \in RoomIds
    /\ \E i \in 1..Len(last.failed), j \in 1..Len(last.successful) :
          last.failed[i] < last.successful[j]

\* The occurrences of the request recorded in l that overlap a booking of
\* the list bookings.
ConflictingWith(l, bookings) ==
    {t \in Attempted(l) :
        \E i \in 1..Len(bookings) :
            HalfOpenOverlap(t, t + l.dur, StartOf(bookings[i]),
                            EndOf(bookings[i]))}
\* The occurrences that overlap an earlier occurrence of the same request
\* that was booked.
ConflictingWithEarlier(l) ==
    {t \in Attempted(l) :
        \E u \in Range(l.successful) :
            u < t /\ HalfOpenOverlap(t, t + l.dur, u, u + l.dur)}
\* The room holds its former bookings followed by one new booking of the
\* request for each successful occurrence, and the other rooms are as
\* they were.
OneNewBookingPerSuccess ==
    /\ Len(rooms'[last'.room])
         = Len(rooms[last'.room]) + Len(last'.successful)
    /\ SubSeq(rooms'[last'.room], 1, Len(rooms[last'.room]))
         = rooms[last'.room]
    /\ \A j \in 1..Len(last'.successful) :
          LET b == rooms'[last'.room][Len(rooms[last'.room]) + j]
          IN /\ StartOf(b) = last'.successful[j]
             /\ EndOf(b) = last'.successful[j] + last'.dur
             /\ b.user_id = last'.user
    /\ \A r \in RoomIds \ {last'.room} : rooms'[r] = rooms[r]

\* C19 (as stated): of the n occurrences of a recurring request, the k
\* that conflict with bookings that existed before the request fail and
\* the other n - k succeed; afterwards the room holds one new booking for
\* each successful occurrence and none for a failed one.
C19_FailuresAreConflictsWithExisting ==
    [][(last'.op = "recurring" /\ last'.result = "returned"
          /\ last'.room \in RoomIds) =>
        /\ Range(last'.failed) = ConflictingWith(last', rooms[last'.room])
        /\ Len(last'.failed)
             = Cardinality(ConflictingWith(last', rooms[last'.room]))
        /\ Len(last'.successful)
             = Cardinality(Attempted(last'))
                 - Cardinality(ConflictingWith(last', rooms[last'.room]))
        /\ OneNewBookingPerSuccess]_vars

\* C19 (amended): the occurrences that fail are those that conflict with
\* a booking that existed before the request or with an earlier occurrence
\* of the same request that was booked; with k of them among n
\* occurrences there are k failures and n - k successes, and afterwards
\* the room holds one new booking for each successful occurrence and none
\* for a failed one.
C19_FailuresAreConflicts ==
    [][(last'.op = "recurring" /\ last'.result = "returned"
          /\ last'.room \in RoomIds) =>
        LET K == ConflictingWith(last', rooms[last'.room])
                   \cup ConflictingWithEarlier(last')
        IN /\ Range(last'.failed) = K
           /\ Len(last'.failed) = Cardinality(K)
           /\ Len(last'.successful)
                = Cardinality(Attempted(last')) - Cardinality(K)
           /\ OneNewBookingPerSuccess]_vars

\* Five weekly occurrences of which three conflict with stored bookings:
\* two successes, three failures.
C19_Witness ==
    /\ last.op = "recurring"
    /\ last.result = "returned"
    /\ last.room \in RoomIds
    /\ Len(last.successful) = 2
    /\ Len(last.failed) = 3
    /\ \A t \in Range(last.failed) :
          \E b \in Stored(last.room) :
              b.user_id = "U2"
              /\ HalfOpenOverlap(t, t + last.dur, StartOf(b), EndOf(b))

\* The first booking of room r, in stored order, that overlaps [s, e), as
\* a list of one booking; the empty list if none overlaps.
FirstOverlapping(r, s, e) ==
    LET I == {i \in 1..Len(rooms[r]) :
                 HalfOpenOverlap(s, e, StartOf(rooms[r][i]),
                                 EndOf(rooms[r][i]))}
    IN IF I = {} THEN <<>>
       ELSE <<rooms[r][CHOOSE i \in I : \A j \in I : i <= j]>>

\* C20: the conflict an alternative suggestion reports is the first
\* booking of the room, in stored order, that overlaps the requested
\* interval, and None only if none overlaps; so whenever IsAvailable is
\* false for a known room the conflict is not None and overlaps the
\* request.
C20_ConflictIsFirstOverlapping ==
    (last.op = "suggest" /\ last.room \in RoomIds) =>
        /\ last.conflicting_booking
             = FirstOverlapping(last.room, last.start, last.start + last.dur)
        /\ ~check_room_availability(rooms, last.room, last.start, last.dur)
             => /\ last.conflicting_booking # <<>>
                /\ HalfOpenOverlap(last.start, last.start + last.dur,
                                   StartOf(last.conflicting_booking[1]),
                                   EndOf(last.conflicting_booking[1]))

\* Room r has no stored booking that overlaps [s, e).
FreeIn(r, s, e) ==
    \A b \in Stored(r) : ~HalfOpenOverlap(s, e, StartOf(b), EndOf(b))

\* C21: the other rooms of an alternative suggestion are exactly the rooms
\* of the catalog, other than the requested one, that are available at the
\* requested interval, each listed once; the requested room is never
\* listed.
C21_OtherRoomsAreTheFreeOthers ==
    last.op = "suggest" =>
        /\ Range(last.other_rooms)
             = {r \in RoomIds :
                   r # last.room
                   /\ FreeIn(r, last.start, last.start + last.dur)}
        /\ Len(last.other_rooms) = Cardinality(Range(last.other_rooms))
        /\ last.room \notin Range(last.other_rooms)

\* A suggestion asked for a room that is itself free at the requested
\* time, while the other room is taken: nothing is listed.
C21_Witness ==
    /\ last.op = "suggest"
    /\ last.room = "RAVEN"
    /\ FreeIn("RAVEN", last.start, last.start + last.dur)
    /\ ~FreeIn("NEST", last.start, last.start + last.dur)
    /\ last.other_rooms = <<>>

\* C22: when the durable write of a Book or Cancel fails, the operation
\* reports a persistence failure and the catalog in memory is what it was
\* before the operation.
C22_FailedWriteIsRolledBack ==
    [][(last'.op \in {"book", "cancel"}
          /\ last'.write \in {"refused", "torn"}) =>
        /\ last'.result = "persistence_failed"
        /\ rooms' = rooms]_vars

\* C23: after every successful Book or Cancel the file holds the whole
\* catalog, an operation that fails writes nothing, and so the file and
\* the catalog agree between operations.
C23_FileEqualsCatalog ==
    [][/\ last'.result \in {"booked", "cancelled"} => disk' = rooms'
       /\ last'.result \in {"None", "room_not_found", "not_found",
                            "unauthorized", "not_available", "error"}
            => (disk' = disk /\ rooms' = rooms)
       /\ disk = rooms => disk' = rooms']_vars

\* A command refused for a conflict: nothing is written, and the file
\* holds the catalog with the booking the command ran into.
C23_Witness ==
    /\ last.op = "handle_book"
    /\ last.result = "not_available"
    /\ disk = rooms
    /\ \E r \in RoomIds : rooms[r] # <<>>

\* C24: the recurring booking operation terminates for every input: a
\* frequency outside daily, weekly, biweekly and monthly is rejected with
\* an invalid-recurrence error, and a pass of the loop never leaves the
\* call running with the date where it was.
C24_LoopAdvancesOrEnds ==
    [][/\ (last'.op = "recurring" /\ last'.result # "running"
             /\ last'.frequency
                  \notin {"daily", "weekly", "biweekly", "monthly"})
            => last'.result = "invalid_recurrence"
       /\ (last.result = "running" /\ last'.result = "running")
            => last'.current_date > last.current_date]_vars

\* The (start, end) pairs of the stored bookings of a room.
StoredPairs(r) == {<<StartOf(b), EndOf(b)>> : b \in Stored(r)}

\* C25: AvailableSlots never returns a zero-length or inverted interval,
\* and returns its intervals in ascending, pairwise disjoint order; with
\* the back-to-back bookings 09:00-10:00 and 10:00-11:00 the only slot is
\* 11:00-18:00.
C25_SlotsPositiveAscendingDisjoint ==
    last.op = "slots" =>
        /\ \A k \in 1..Len(last.slots) : last.slots[k][1] < last.slots[k][2]
        /\ \A k \in 1..(Len(last.slots) - 1) :
               last.slots[k][2] <= last.slots[k + 1][1]
        /\ (/\ last.room \in RoomIds
            /\ StoredPairs(last.room)
                 = {<<combine(DateOf(last.start), 9),
                      combine(DateOf(last.start), 10)>>,
                    <<combine(DateOf(last.start), 10),
                      combine(DateOf(last.start), 11)>>})
             => last.slots = << <<combine(DateOf(last.start), 11),
                                  combine(DateOf(last.start), 18)>> >>

\* The instant t lies in the half-open interval p = <<start, end>>.
Within(t, p) == p[1] <= t /\ t < p[2]
\* The minutes of the day of a datetime.
MinutesOfDay(date) ==
    combine(DateOf(date), 0)..(combine(DateOf(date) + 1, 0) - 1)

\* C26: AvailableSlots is complete: for a known room the returned slots
\* cover the window 09:00-18:00 of the day minus the room's bookings, each
\* free instant of the window lying in exactly one slot and every other
\* instant in none (so a fully booked window gives no slot).
C26_SlotsAreTheFreeWindow ==
    (last.op = "slots" /\ last.room \in RoomIds) =>
        \A t \in MinutesOfDay(last.start) :
            LET free == /\ Within(t, <<combine(DateOf(last.start), 9),
                                       combine(DateOf(last.start), 18)>>)
                        /\ \A b \in Stored(last.room) :
                               ~Within(t, <<StartOf(b), EndOf(b)>>)
                holding == {k \in 1..Len(last.slots) :
                               Within(t, last.slots[k])}
            IN Cardinality(holding) = IF free THEN 1 ELSE 0

\* The nine hour boundaries 09:00, 10:00, ..., 17:00 of the day of a
\* datetime.
HourBoundaries(date) == {combine(DateOf(date), h) : h \in 9..17}

\* C27: HourlyCandidateTimes returns, in ascending order, exactly those of
\* the nine hour boundaries 09:00 ... 17:00 of the day (17:00 included) at
\* which the room is available for the duration, and nothing for an
\* unknown room.
C27_TimesAreTheFreeHourBoundaries ==
    last.op = "times" =>
        /\ Ascending(last.times)
        /\ Range(last.times)
             = IF last.room \in RoomIds
               THEN {t \in HourBoundaries(last.start) :
                        FreeIn(last.room, t, t + last.dur)}
               ELSE {}

\* Candidate times of a room whose one booking is 09:00-10:00: the eight
\* boundaries from 10:00 to 17:00 are listed, 17:00 included, and 09:00 is
\* not.
C27_Witness ==
    /\ last.op = "times"
    /\ last.room = "NEST"
    /\ Len(rooms["NEST"]) = 1
    /\ StartOf(rooms["NEST"][1]) = combine(DateOf(last.start), 9)
    /\ EndOf(rooms["NEST"][1]) = combine(DateOf(last.start), 10)
    /\ Len(last.times) = 8
    /\ last.times[1] = combine(DateOf(last.start), 10)
    /\ last.times[8] = combine(DateOf(last.start), 17)

\* The same-room times are ascending, on the day of the request, and each
\* is available in the requested room for the requested duration.
GoodTimes(times) ==
    /\ Ascending(times)
    /\ \A k \in 1..Len(times) :
           /\ DateOf(times[k]) = DateOf(last.start)
           /\ FreeIn(last.room, times[k], times[k] + last.dur)

\* C28 as stated: the same-room alternatives of a suggestion result are at
\* most 8 start times, ascending, all on the day of the request, each
\* available in the requested room for the requested duration.
C28_AtMostEightTimes ==
    last.op = "alternatives" =>
        /\ Len(last.available_times) <= 8
        /\ GoodTimes(last.available_times)

\* C28: the same-room alternatives of a suggestion result are at most 9
\* start times (the free ones of the hour boundaries 09:00 ... 17:00),
\* ascending, all on the day of the request, each available in the
\* requested room for the requested duration; the message lists the first
\* 8 of them at most.
C28_AtMostNineTimesEightShown ==
    last.op = "alternatives" =>
        /\ Len(last.available_times) <= 9
        /\ GoodTimes(last.available_times)
        /\ Len(last.shown_times) <= 8
        /\ last.shown_times
             = SubSeq(last.available_times, 1, Len(last.shown_times))
        /\ Len(last.shown_times) < 8
             => last.shown_times = last.available_times

\* A request for 19:00 refused because of a booking from 19:00 on: all
\* nine hour boundaries of the day are free, eight are listed.
C28_Witness ==
    /\ last.op = "alternatives"
    /\ last.start = combine(1, 19)
    /\ Len(last.available_times) = 9
    /\ Len(last.shown_times) = 8
    /\ last.shown_times[8] = combine(1, 16)

\* The calendar month after the month of a datetime, as <<year, month>>.
MonthAfter(t) ==
    LET ymd == YMD(DateOf(t))
    IN IF ymd[2] = 12 THEN <<ymd[1] + 1, 1>> ELSE <<ymd[1], ymd[2] + 1>>
\* Occurrences a and b with no occurrence between them.
Consecutive(a, b, occurrences) ==
    a < b /\ ~\E c \in occurrences : a < c /\ c < b

\* C29: for monthly frequency, consecutive occurrences fall in consecutive
\* calendar months on the same day of the month at the same time of day,
\* and the occurrence after one in December is in January of the following
\* year.
C29_MonthlyStepsByCalendarMonth ==
    (last.op = "recurring" /\ last.frequency = "monthly") =>
        \A a \in Attempted(last) : \A b \in Attempted(last) :
            Consecutive(a, b, Attempted(last)) =>
                /\ <<YMD(DateOf(b))[1], YMD(DateOf(b))[2]>> = MonthAfter(a)
                /\ DayOfMonth(b) = DayOfMonth(a)
                /\ b % MinutesPerDay = a % MinutesPerDay
                /\ YMD(DateOf(a))[2] = 12 =>
                       /\ YMD(DateOf(b))[1] = YMD(DateOf(a))[1] + 1
                       /\ YMD(DateOf(b))[2] = 1

\* Monthly from 2024-11-04 10:00 to 2025-01-04: 4 November, 4 December and
\* 4 January of the following year.
C29_Witness ==
    /\ last.op = "recurring"
    /\ last.frequency = "monthly"
    /\ last.result = "returned"
    /\ Attempted(last) = {combine(Ordinal(2024, 11, 4), 10),
                          combine(Ordinal(2024, 12, 4), 10),
                          combine(Ordinal(2025, 1, 4), 10)}

\* C30: when the expansion of a recurring booking yields no occurrence,
\* the operation reports a nothing-to-schedule outcome of its own, not a
\* result with an empty success list and an empty failure list.
C30_NothingToScheduleIsDistinct ==
    (last.op = "recurring" /\ Attempted(last) = {}) =>
        last.result = "nothing_to_schedule"

\* The calls that only report state.
ReadOps == {"check", "suggest", "slots", "times", "list"}

\* C31: IsAvailable, the alternative suggestion, AvailableSlots,
\* HourlyCandidateTimes and ListUserBookings leave every room's bookings
\* (content and stored order) and the persisted state unchanged.
C31_ReadsChangeNothing ==
    [][last'.op \in ReadOps => (rooms' = rooms /\ disk' = disk)]_vars

\* A slot query answered over a room whose two bookings are stored with
\* the later one first, the file holding the same catalog.
C31_Witness ==
    /\ last.op = "slots"
    /\ last.room = "NEST"
    /\ Len(rooms["NEST"]) = 2
    /\ StartOf(rooms["NEST"][1]) > StartOf(rooms["NEST"][2])
    /\ disk = save_rooms(rooms)

\* C32: when the persisted state cannot be loaded at startup (not JSON, or
\* a malformed record), startup stops with an error; no command is ever
\* served over an empty or partially loaded catalog.
C32_UnloadableFileStopsStartup ==
    [][/\ (last'.op = "main" /\ last'.file \in {"corrupt", "malformed"})
            => last'.result = "stopped"
       /\ last'.op = "handle_book" => DOMAIN rooms = RoomIds]_vars

\* C33: handling a recurring-booking command in which every field is
\* matched never ends in an exception; it ends in a validation result or,
\* for a start date before the end date, in the result of the booking loop
\* listing successes and failures.
C33_RecurringCommandReturnsAResult ==
    last.op = "handle_recurring" =>
        /\ last.result # "ValueError"
        /\ DateOf(last.start) < DateOf(last.end_date)
             => last.result = "returned"

\* The sequence s without its i-th element.
Without(s, i) == [j \in 1..(Len(s) - 1) |-> IF j < i THEN s[j] ELSE s[j + 1]]

\* C34: a successful Cancel removes exactly one booking, one of the room
\* that starts at the requested time and belongs to the requester, and
\* leaves every other booking of the room, in its order, and every other
\* room unchanged.
C34_CancelRemovesExactlyOne ==
    [][(last'.op = "cancel" /\ last'.result = "cancelled") =>
        /\ last'.room \in RoomIds
        /\ \E i \in 1..Len(rooms[last'.room]) :
              /\ StartOf(rooms[last'.room][i]) = last'.start
              /\ rooms[last'.room][i].user_id = last'.user
              /\ rooms'[last'.room] = Without(rooms[last'.room], i)
        /\ \A r \in RoomIds \ {last'.room} : rooms'[r] = rooms[r]]_vars

\* A successful Cancel after which the room still holds a booking with the
\* same start.
C34_Witness ==
    /\ last.op = "cancel"
    /\ last.result = "cancelled"
    /\ \E b \in Stored(last.room) : StartOf(b) = last.start

\* The bookings of a list that belong to a user, in their order.
OwnedBy(bookings, u) == SelectSeq(bookings, LAMBDA b : b.user_id = u)

\* C35: no command of one user (book, recurring book, cancel by number,
\* cancel all) removes or changes a booking of another user: over every
\* command the bookings each other user owns, room by room, stay what they
\* were.
C35_CommandsLeaveOthersBookings ==
    [][\A u \in Users \ {last'.user} : \A r \in RoomIds :
          OwnedBy(rooms'[r], u) = OwnedBy(rooms[r], u)]_vars

\* A cancel command that removed a booking of its user from a room in
\* which a booking of another user with the same start is still stored.
C35_Witness ==
    /\ last.op = "handle_cancel"
    /\ Len(last.cancelled) = 1
    /\ \E b \in Stored(last.cancelled[1].room_id) :
          /\ b.user_id # last.user
          /\ b.start_time = last.cancelled[1].start_time

\* C36: whenever a room holds a booking that starts at s and belongs to
\* user u, Cancel(room, s, u) succeeds and removes a booking of u, also
\* when a booking of another user with the same start is stored before it.
C36_OwnerCanAlwaysCancel ==
    [][(/\ last'.op = "cancel"
        /\ last'.room \in RoomIds
        /\ \E b \in Stored(last'.room) :
              StartOf(b) = last'.start /\ b.user_id = last'.user)
       => /\ last'.result = "cancelled"
          /\ Len(OwnedBy(rooms'[last'.room], last'.user))
               = Len(OwnedBy(rooms[last'.room], last'.user)) - 1]_vars

\* Booking b of user u starts after t.
FutureFor(b, u, t) == b.user_id = u /\ StartOf(b) > t

\* C37: after a user's cancel-all command, handled with no other command
\* in between, the user has no future booking left, and the user's past
\* or in-progress bookings and all bookings of other users are as before.
C37_CancelAllLeavesNoFutureBooking ==
    [][(last'.op = "handle_cancel" /\ last'.cancel_all) =>
        \A r \in RoomIds :
            /\ \A i \in 1..Len(rooms'[r]) :
                  ~FutureFor(rooms'[r][i], last'.user, last'.now)
            /\ SelectSeq(rooms'[r],
                         LAMBDA b : ~FutureFor(b, last'.user, last'.now))
                 = SelectSeq(rooms[r],
                             LAMBDA b : ~FutureFor(b, last'.user, last'.now))]_vars

\* C38: a cancel-by-number command removes the booking that was shown
\* under that number in the user's most recent list, whatever happened to
\* the user's list since; here the list is followed at once by the cancel
\* command, only the clock having moved on, and the booking shown under
\* the number has not started yet.
C38_NumberMeansWhatWasShown ==
    [][(/\ last.op = "handle_list"
        /\ last'.op = "handle_cancel"
        /\ last'.user = last.user
        /\ last'.now >= last.now
        /\ Len(last'.numbers) = 1
        /\ last'.numbers[1] \in 1..Len(last.listed)
        /\ StartOf(last.listed[last'.numbers[1]]) > last'.now)
       => LET shown == last.listed[last'.numbers[1]]
          IN \E i \in 1..Len(rooms[shown.room_id]) :
                /\ rooms[shown.room_id][i].start_time = shown.start_time
                /\ rooms[shown.room_id][i].user_id = shown.user_id
                /\ rooms'[shown.room_id]
                     = Without(rooms[shown.room_id], i)]_vars

\* C39: the command handler's recurring booking (expand every occurrence,
\* then book each) and book_recurring_meetings (expand and book in one
\* loop), run on the same catalog with the same request, give the same
\* successful list, the same failed list and the same catalog; a request
\* whose monthly expansion fails adds no booking.
C39_TwoRecurringLoopsAgree ==
    [][last'.op = "recurring" =>
        LET req == [room_id |-> last'.room, end_date |-> last'.end_date,
                    frequency |-> last'.frequency,
                    duration_minutes |-> last'.dur,
                    event_name |-> "sync", meeting_type |-> "internal",
                    contact_name |-> "ann", user_id |-> last'.user]
            handled == ExpandThenBook(rooms, req, last'.start)
        IN /\ handled.successful = last'.successful
           /\ handled.failed = last'.failed
           /\ handled.rooms = rooms'
           /\ handled.raised = (last'.result = "ValueError")
           /\ last'.result = "ValueError" => rooms' = rooms]_vars

\* C40: persistence round-trips: when the file holds what a save of the
\* catalog wrote, a load of it (the public reload, or the load at startup)
\* leaves a catalog with the same rooms and, room by room, the same
\* bookings.
C40_SaveThenLoadIsIdentity ==
    [][/\ (last'.op = "load" /\ last'.result = "loaded"
             /\ disk = save_rooms(rooms))
            => rooms' = rooms
       /\ (last'.op = "main" /\ last'.file = "valid")
            => save_rooms(rooms') = disk]_vars

====
